---- MODULE Spec2Model ----
(***************************************************************************)
(* Model of shells/abstract.go: the shell-agnostic build-script generator. *)
(* AbstractShell turns a common.ShellScriptInfo into a sequence of         *)
(* ShellWriter calls, in three phases (GeneratePreBuild, GenerateCommands, *)
(* GeneratePostBuild).  A writer is modelled by the sequence of calls it   *)
(* received; every generator function takes the writer and returns it with *)
(* the calls the function makes appended.                                  *)
(***************************************************************************)
EXTENDS Integers, Sequences, FiniteSets, TLC

VARIABLES info, pc, w

vars == <<info, pc, w>>

(* ----------------------------- bounds ---------------------------------- *)

\* longest list returned by Build.GetAllVariables()
MaxVars == 2
\* longest Build.DependsOnBuilds
MaxDeps == 3
\* longest Build.Commands text, in characters
MaxCmdLen == 4
\* longest "paths" list of a cache/artifacts option
MaxPaths == 2

(* --------------------------- strings ----------------------------------- *)

CharAt(s, i) == SubSeq(s, i, i)

\* unicode.IsSpace on the characters the model draws
IsSpace(c) == c \in {" ", "\t", "\n", "\r"}

RECURSIVE TrimLeft(_)
TrimLeft(s) ==
    IF Len(s) > 0 /\ IsSpace(CharAt(s, 1)) THEN TrimLeft(SubSeq(s, 2, Len(s))) ELSE s

RECURSIVE TrimRight(_)
TrimRight(s) ==
    IF Len(s) > 0 /\ IsSpace(CharAt(s, Len(s)))
    THEN TrimRight(SubSeq(s, 1, Len(s) - 1))
    ELSE s

\* strings.TrimSpace
TrimSpace(s) == TrimRight(TrimLeft(s))

\* strings.Split(s, sep) for a one-character separator: always at least one piece
RECURSIVE SplitFrom(_, _, _)
SplitFrom(s, sep, cur) ==
    IF Len(s) = 0 THEN <<cur>>
    ELSE IF CharAt(s, 1) = sep
         THEN <<cur>> \o SplitFrom(SubSeq(s, 2, Len(s)), sep, "")
         ELSE SplitFrom(SubSeq(s, 2, Len(s)), sep, cur \o CharAt(s, 1))

Split(s, sep) == SplitFrom(s, sep, "")

Digit(d) == CharAt("0123456789", d + 1)

\* strconv.Itoa on the non-negative IDs the model draws
RECURSIVE Itoa(_)
Itoa(n) == IF n < 10 THEN Digit(n) ELSE Itoa(n \div 10) \o Digit(n % 10)

\* path.Join(dir, name) for a clean non-empty dir and a plain name
pathJoin(dir, name) == dir \o "/" \o name

(* --------------------------- ShellWriter -------------------------------- *)

NoVariable == [Key |-> "", Value |-> "", Public |-> FALSE, Internal |-> FALSE, File |-> FALSE]

\* one call received by the writer
Instr(op, args) == [op |-> op, args |-> args, variable |-> NoVariable]

Variable(wr, variable) == Append(wr, [op |-> "Variable", args |-> <<>>, variable |-> variable])
Command(wr, command, arguments) == Append(wr, Instr("Command", <<command>> \o arguments))
Line(wr, text) == Append(wr, Instr("Line", <<text>>))
IfDirectory(wr, path) == Append(wr, Instr("IfDirectory", <<path>>))
IfFile(wr, file) == Append(wr, Instr("IfFile", <<file>>))
Else(wr) == Append(wr, Instr("Else", <<>>))
EndIf(wr) == Append(wr, Instr("EndIf", <<>>))
Cd(wr, path) == Append(wr, Instr("Cd", <<path>>))
RmDir(wr, path) == Append(wr, Instr("RmDir", <<path>>))
RmFile(wr, path) == Append(wr, Instr("RmFile", <<path>>))
Notice(wr, fmt, arguments) == Append(wr, Instr("Notice", <<fmt>> \o arguments))
Warning(wr, fmt, arguments) == Append(wr, Instr("Warning", <<fmt>> \o arguments))
EmptyLine(wr) == Append(wr, Instr("EmptyLine", <<>>))

(* ------------------- helpers of other packages -------------------------- *)

\* helpers.BoolOrDefault: a *bool is <<>> (nil) or <<b>>
BoolOrDefault(value, default) == IF value = <<>> THEN default ELSE value[1]

\* helpers.ToConfigMap: ok exactly for a mapping
ToConfigMap(list) == [ok |-> list.kind = "map", hash |-> list]

(* --------------------------- AbstractShell ------------------------------ *)

writeCdBuildDir(wr, i) == Cd(wr, i.Build.FullProjectDir)

RECURSIVE writeExportsFrom(_, _, _)
writeExportsFrom(wr, variables, k) ==
    IF k > Len(variables) THEN wr
    ELSE writeExportsFrom(Variable(wr, variables[k]), variables, k + 1)

writeExports(wr, i) == writeExportsFrom(wr, i.Build.GetAllVariables, 1)

\* mutant: the exported variable is not marked as a file
writeTLSCAInfo_NotFile(wr, build, key) ==
    IF build.TLSCAChain # ""
    THEN Variable(wr, [Key |-> key, Value |-> build.TLSCAChain,
                       Public |-> TRUE, Internal |-> TRUE, File |-> FALSE])
    ELSE wr

writeTLSCAInfo(wr, build, key) ==
    IF build.TLSCAChain # ""
    THEN Variable(wr, [Key |-> key, Value |-> build.TLSCAChain,
                       Public |-> TRUE, Internal |-> TRUE, File |-> TRUE])
    ELSE wr

\* mutant: the stale target directory is not removed before the clone
writeCloneCmd_NoRmDir(wr, build, projectDir) ==
    LET w1 == Notice(wr, "Cloning repository...", <<>>)
        w3 == Command(w1, "git", <<"clone", build.RepoURL, projectDir>>)
    IN  Cd(w3, projectDir)

writeCloneCmd(wr, build, projectDir) ==
    LET w1 == Notice(wr, "Cloning repository...", <<>>)
        w2 == RmDir(w1, projectDir)
        w3 == Command(w2, "git", <<"clone", build.RepoURL, projectDir>>)
    IN  Cd(w3, projectDir)

\* mutant: the conditional is left open
writeFetchCmd_NoEndIf(wr, build, projectDir, gitDir) ==
    LET w1 == IfDirectory(wr, gitDir)
        w2 == Notice(w1, "Fetching changes...", <<>>)
        w3 == Cd(w2, projectDir)
        w4 == Command(w3, "git", <<"clean", "-ffdx">>)
        w5 == Command(w4, "git", <<"reset", "--hard">>)
        w6 == Command(w5, "git", <<"remote", "set-url", "origin", build.RepoURL>>)
        w7 == Command(w6, "git", <<"fetch", "origin">>)
        w8 == Else(w7)
    IN  writeCloneCmd(w8, build, projectDir)

writeFetchCmd(wr, build, projectDir, gitDir) ==
    LET w1 == IfDirectory(wr, gitDir)
        w2 == Notice(w1, "Fetching changes...", <<>>)
        w3 == Cd(w2, projectDir)
        w4 == Command(w3, "git", <<"clean", "-ffdx">>)
        w5 == Command(w4, "git", <<"reset", "--hard">>)
        w6 == Command(w5, "git", <<"remote", "set-url", "origin", build.RepoURL>>)
        w7 == Command(w6, "git", <<"fetch", "origin">>)
        w8 == Else(w7)
        w9 == writeCloneCmd(w8, build, projectDir)
    IN  EndIf(w9)

writeCheckoutCmd(wr, build) ==
    LET w1 == Notice(wr, "Checking out %s as %s...", <<SubSeq(build.Sha, 1, 8), build.RefName>>)
    IN  Command(w1, "git", <<"checkout", build.Sha>>)

\* mutant: the companion path is not checked
extractFiles_NoCheck(wr, runnerCommand, archiveType, archivePath) ==
    LET args == <<"extract", "--file", archivePath>>
        w1 == Notice(wr, "Restoring %s...", <<archiveType>>)
    IN  Command(w1, runnerCommand, args)

extractFiles(wr, runnerCommand, archiveType, archivePath) ==
    IF runnerCommand = ""
    THEN Warning(wr, "The %s is not supported in this executor.", <<archiveType>>)
    ELSE LET args == <<"extract", "--file", archivePath>>
             w1 == Notice(wr, "Restoring %s...", <<archiveType>>)
         IN  Command(w1, runnerCommand, args)

downloadArtifacts(wr, runner, build, runnerCommand, archivePath) ==
    IF runnerCommand = ""
    THEN Warning(wr, "The artifacts downloading is not supported in this executor.", <<>>)
    ELSE LET args == <<"artifacts", "--download", "--url", runner.URL,
                       "--token", build.Token, "--id", Itoa(build.ID),
                       "--file", archivePath>>
             w1 == Notice(wr, "Downloading artifacts for %s (%d)...",
                          <<build.Name, Itoa(build.ID)>>)
         IN  Command(w1, runnerCommand, args)

uploadArtifacts(wr, build, runnerCommand, archivePath) ==
    IF runnerCommand = ""
    THEN Warning(wr, "The artifacts uploading is not supported in this executor.", <<>>)
    ELSE LET args == <<"artifacts", "--url", build.Runner.URL,
                       "--token", build.Token, "--id", Itoa(build.ID),
                       "--file", archivePath>>
             w1 == Notice(wr, "Uploading artifacts...", <<>>)
         IN  Command(w1, runnerCommand, args)

\* the "--path <file>" pairs of the string entries of a paths list, in order
RECURSIVE collectPaths(_, _)
collectPaths(paths, k) ==
    IF k > Len(paths) THEN <<>>
    ELSE (IF paths[k].kind = "string" THEN <<"--path", paths[k].s>> ELSE <<>>)
         \o collectPaths(paths, k + 1)

\* mutant: an archive command selecting nothing is not skipped
archiveFiles_NoSkip(wr, list, runnerCommand, archiveType, archivePath) ==
    LET cm == ToConfigMap(list) IN
    IF ~cm.ok THEN wr
    ELSE IF runnerCommand = ""
    THEN Warning(wr, "The %s is not supported in this executor.", <<archiveType>>)
    ELSE LET hash == cm.hash
             args0 == <<"archive", "--file", archivePath>>
             args1 == IF hash.paths.kind = "list"
                      THEN args0 \o collectPaths(hash.paths.items, 1)
                      ELSE args0
             args == IF hash.untracked.kind = "bool" /\ hash.untracked.b
                     THEN Append(args1, "--untracked")
                     ELSE args1
         IN  IF Len(args) < 3 THEN wr
             ELSE Command(Notice(wr, "Archiving %s...", <<archiveType>>), runnerCommand, args)

archiveFiles(wr, list, runnerCommand, archiveType, archivePath) ==
    LET cm == ToConfigMap(list) IN
    IF ~cm.ok THEN wr
    ELSE IF runnerCommand = ""
    THEN Warning(wr, "The %s is not supported in this executor.", <<archiveType>>)
    ELSE LET hash == cm.hash
             args0 == <<"archive", "--file", archivePath>>
             args1 == IF hash.paths.kind = "list"
                      THEN args0 \o collectPaths(hash.paths.items, 1)
                      ELSE args0
             args == IF hash.untracked.kind = "bool" /\ hash.untracked.b
                     THEN Append(args1, "--untracked")
                     ELSE args1
         IN  IF Len(args) <= 3 THEN wr
             ELSE Command(Notice(wr, "Archiving %s...", <<archiveType>>), runnerCommand, args)

\* mutant: the check of the second cache file follows the first instead of
\* sitting in its else-branch
restoreCache_Unnested(wr, i) ==
    LET first == i.Build.CacheFile
        second == i.Build.CacheFileForRefMaster
        cacheFile == IF first = "" THEN second ELSE first
        cacheFile2 == IF first = "" THEN "" ELSE second
    IN  IF cacheFile # ""
        THEN LET w1 == IfFile(wr, cacheFile)
                 w2 == extractFiles(w1, i.RunnerCommand, "cache", cacheFile)
                 w3 == EndIf(w2)
             IN  IF cacheFile2 # ""
                 THEN LET v2 == IfFile(w3, cacheFile2)
                          v3 == extractFiles(v2, i.RunnerCommand, "cache", cacheFile2)
                      IN  EndIf(v3)
                 ELSE w3
        ELSE wr

\* the cache restoration of GeneratePreBuild
restoreCache(wr, i) ==
    LET first == i.Build.CacheFile
        second == i.Build.CacheFileForRefMaster
        cacheFile == IF first = "" THEN second ELSE first
        cacheFile2 == IF first = "" THEN "" ELSE second
    IN  IF cacheFile # ""
        THEN LET w1 == IfFile(wr, cacheFile)
                 w2 == extractFiles(w1, i.RunnerCommand, "cache", cacheFile)
                 w3 == IF cacheFile2 # ""
                       THEN LET v1 == Else(w2)
                                v2 == IfFile(v1, cacheFile2)
                                v3 == extractFiles(v2, i.RunnerCommand, "cache", cacheFile2)
                            IN  EndIf(v3)
                       ELSE w2
             IN  EndIf(w3)
        ELSE wr

\* mutant: a dependency with an empty artifact filename is not skipped
RECURSIVE processArtifacts_NoSkip(_, _, _)
processArtifacts_NoSkip(wr, i, k) ==
    IF k > Len(i.Build.DependsOnBuilds) THEN wr
    ELSE LET otherBuild == i.Build.DependsOnBuilds[k] IN
         IF otherBuild.Artifacts = <<>>
         THEN processArtifacts_NoSkip(wr, i, k + 1)
         ELSE LET file == otherBuild.Artifacts[1].Filename
                  w1 == downloadArtifacts(wr, i.Build.Runner, otherBuild, i.RunnerCommand, file)
                  w2 == extractFiles(w1, i.RunnerCommand, otherBuild.Name, file)
                  w3 == RmFile(w2, file)
              IN  processArtifacts_NoSkip(w3, i, k + 1)

\* the loop over Build.DependsOnBuilds of GeneratePreBuild
RECURSIVE processArtifacts(_, _, _)
processArtifacts(wr, i, k) ==
    IF k > Len(i.Build.DependsOnBuilds) THEN wr
    ELSE LET otherBuild == i.Build.DependsOnBuilds[k] IN
         IF otherBuild.Artifacts = <<>> \/ otherBuild.Artifacts[1].Filename = ""
         THEN processArtifacts(wr, i, k + 1)
         ELSE LET file == otherBuild.Artifacts[1].Filename
                  w1 == downloadArtifacts(wr, i.Build.Runner, otherBuild, i.RunnerCommand, file)
                  w2 == extractFiles(w1, i.RunnerCommand, otherBuild.Name, file)
                  w3 == RmFile(w2, file)
              IN  processArtifacts(w3, i, k + 1)

GeneratePreBuild(wr, i) ==
    LET build == i.Build
        projectDir == build.FullProjectDir
        gitDir == pathJoin(build.FullProjectDir, ".git")
        w1 == writeExports(wr, i)
        w2 == writeTLSCAInfo(w1, build, "GIT_SSL_CAINFO")
        w3 == writeTLSCAInfo(w2, build, "CI_SERVER_TLS_CA_FILE")
        w4 == IF build.AllowGitFetch
              THEN writeFetchCmd(w3, build, projectDir, gitDir)
              ELSE writeCloneCmd(w3, build, projectDir)
        w5 == writeCheckoutCmd(w4, build)
        w6 == restoreCache(w5, i)
    IN  processArtifacts(w6, i, 1)

\* mutant: a blank line is echoed but not passed through
RECURSIVE writeCommands_SkipBlank(_, _, _, _)
writeCommands_SkipBlank(wr, i, lines, k) ==
    IF k > Len(lines) THEN wr
    ELSE LET command == TrimSpace(lines[k])
             w1 == IF ~BoolOrDefault(i.Build.Runner.DisableVerbose, FALSE)
                   THEN IF command # ""
                        THEN Notice(wr, "$ %s", <<command>>)
                        ELSE EmptyLine(wr)
                   ELSE wr
         IN  writeCommands_SkipBlank(IF command # "" THEN Line(w1, command) ELSE w1,
                                     i, lines, k + 1)

RECURSIVE writeCommands(_, _, _, _)
writeCommands(wr, i, lines, k) ==
    IF k > Len(lines) THEN wr
    ELSE LET command == TrimSpace(lines[k])
             w1 == IF ~BoolOrDefault(i.Build.Runner.DisableVerbose, FALSE)
                   THEN IF command # ""
                        THEN Notice(wr, "$ %s", <<command>>)
                        ELSE EmptyLine(wr)
                   ELSE wr
         IN  writeCommands(Line(w1, command), i, lines, k + 1)

GenerateCommands(wr, i) ==
    LET w1 == writeExports(wr, i)
        w2 == writeCdBuildDir(w1, i)
        commands == TrimSpace(i.Build.Commands)
    IN  writeCommands(w2, i, Split(commands, "\n"), 1)

\* mutant: the artifacts are archived and uploaded whatever the Network capability
GeneratePostBuild_IgnoreNetwork(wr, i) ==
    LET w1 == writeExports(wr, i)
        w2 == writeCdBuildDir(w1, i)
        w3 == writeTLSCAInfo(w2, i.Build, "CI_SERVER_TLS_CA_FILE")
        cacheFile == i.Build.CacheFile
        w4 == IF cacheFile # ""
              THEN archiveFiles(w3, i.Build.Options.cache, i.RunnerCommand, "cache", cacheFile)
              ELSE w3
        v1 == archiveFiles(w4, i.Build.Options.artifacts, i.RunnerCommand,
                           "artifacts", "artifacts.zip")
        v2 == IfFile(v1, "artifacts.zip")
        v3 == uploadArtifacts(v2, i.Build, i.RunnerCommand, "artifacts.zip")
        v4 == RmFile(v3, "aritfacts.zip")
    IN  EndIf(v4)

GeneratePostBuild(wr, i) ==
    LET w1 == writeExports(wr, i)
        w2 == writeCdBuildDir(w1, i)
        w3 == writeTLSCAInfo(w2, i.Build, "CI_SERVER_TLS_CA_FILE")
        cacheFile == i.Build.CacheFile
        w4 == IF cacheFile # ""
              THEN archiveFiles(w3, i.Build.Options.cache, i.RunnerCommand, "cache", cacheFile)
              ELSE w3
    IN  IF i.Build.Network
        THEN LET v1 == archiveFiles(w4, i.Build.Options.artifacts, i.RunnerCommand,
                                    "artifacts", "artifacts.zip")
                 v2 == IfFile(v1, "artifacts.zip")
                 v3 == uploadArtifacts(v2, i.Build, i.RunnerCommand, "artifacts.zip")
                 v4 == RmFile(v3, "aritfacts.zip")
             IN  EndIf(v4)
        ELSE w4

(* ------------------------- generation requests -------------------------- *)

\* the k-th variable of Build.GetAllVariables()
DeclaredVariable(k) ==
    [Key |-> "VAR" \o Itoa(k), Value |-> "value" \o Itoa(k),
     Public |-> (k % 2 = 1), Internal |-> FALSE, File |-> FALSE]

VariableLists == {[k \in 1..n |-> DeclaredVariable(k)] : n \in 0..MaxVars}

ArtifactChoices == {"nil", "empty", "file"}

\* the k-th common.BuildInfo of Build.DependsOnBuilds; Artifacts is <<>> (nil) or <<record>>
Dependency(k, choice) ==
    [ID |-> 7 * k + 5, Name |-> "dep" \o Itoa(k), Token |-> "token" \o Itoa(k),
     Artifacts |-> IF choice = "nil" THEN <<>>
                   ELSE <<[Filename |-> IF choice = "empty" THEN ""
                                        ELSE "dep" \o Itoa(k) \o ".zip"]>>]

DependencyLists ==
    UNION {{[k \in 1..n |-> Dependency(k, c[k])] : c \in [1..n -> ArtifactChoices]}
           : n \in 0..MaxDeps}

CommandChars == {"l", " ", "\t", "\n"}

RECURSIVE TextsUpTo(_)
TextsUpTo(n) ==
    IF n = 0 THEN {""}
    ELSE LET shorter == TextsUpTo(n - 1)
         IN  shorter \cup {t \o c : t \in shorter, c \in CommandChars}

CommandTexts == TextsUpTo(MaxCmdLen)

\* values of a dynamically typed option (interface{}), tagged by their Go type
PathItems == {[kind |-> "string", s |-> "dist"], [kind |-> "string", s |-> "bin"],
              [kind |-> "int", s |-> "7"]}

PathLists == UNION {[1..n -> PathItems] : n \in 0..MaxPaths}

NilPaths == [kind |-> "nil", items |-> <<>>]

PathsValues == {NilPaths, [kind |-> "string", items |-> <<>>]}
               \cup {[kind |-> "list", items |-> l] : l \in PathLists}

NilUntracked == [kind |-> "nil", b |-> FALSE]

UntrackedValues == {NilUntracked, [kind |-> "string", b |-> FALSE],
                    [kind |-> "bool", b |-> TRUE], [kind |-> "bool", b |-> FALSE]}

NilOption == [kind |-> "nil", paths |-> NilPaths, untracked |-> NilUntracked]

MapOption(paths, untracked) == [kind |-> "map", paths |-> paths, untracked |-> untracked]

OptionValues ==
    {NilOption, [kind |-> "string", paths |-> NilPaths, untracked |-> NilUntracked]}
    \cup {MapOption(p, u) : p \in PathsValues, u \in UntrackedValues}

\* a few representative options, paired with every option of the other feature
SomeOptionValues ==
    {NilOption,
     MapOption([kind |-> "list", items |-> <<>>], [kind |-> "bool", b |-> FALSE]),
     MapOption([kind |-> "list", items |-> <<[kind |-> "string", s |-> "dist"]>>],
               [kind |-> "bool", b |-> TRUE])}

OptionPairs == (OptionValues \X SomeOptionValues) \cup (SomeOptionValues \X OptionValues)

CacheFiles == {"", "cache/feature/cache.tgz"}
MasterCacheFiles == {"", "cache/master/cache.tgz", "cache/feature/cache.tgz"}
RunnerCommands == {"", "gitlab-runner"}

DefaultInfo ==
    [RunnerCommand |-> "gitlab-runner",
     Build |-> [GetAllVariables |-> <<>>,
                FullProjectDir |-> "/builds/group/project",
                TLSCAChain |-> "",
                AllowGitFetch |-> FALSE,
                RepoURL |-> "https://gitlab.example.com/group/project.git",
                Sha |-> "0123456789abcdef0123456789abcdef01234567",
                RefName |-> "feature",
                CacheFile |-> "",
                CacheFileForRefMaster |-> "",
                DependsOnBuilds |-> <<>>,
                Commands |-> "",
                Runner |-> [URL |-> "https://gitlab.example.com/ci", DisableVerbose |-> <<>>],
                Options |-> [cache |-> NilOption, artifacts |-> NilOption],
                Network |-> FALSE,
                Token |-> "buildtoken",
                ID |-> 42]]

\* requests that vary everything GeneratePreBuild reads
PreBuildInfos ==
    {[DefaultInfo EXCEPT !.RunnerCommand = rc,
                         !.Build.GetAllVariables = vs,
                         !.Build.TLSCAChain = tls,
                         !.Build.AllowGitFetch = fetch,
                         !.Build.CacheFile = cf,
                         !.Build.CacheFileForRefMaster = cfm,
                         !.Build.DependsOnBuilds = deps] :
        rc \in RunnerCommands, vs \in VariableLists, tls \in {"", "CERTIFICATE"},
        fetch \in BOOLEAN, cf \in CacheFiles, cfm \in MasterCacheFiles,
        deps \in DependencyLists}

\* requests that vary everything GenerateCommands reads
CommandsInfos ==
    {[DefaultInfo EXCEPT !.Build.GetAllVariables = vs,
                         !.Build.Commands = text,
                         !.Build.Runner.DisableVerbose = dv] :
        vs \in VariableLists, text \in CommandTexts, dv \in {<<>>, <<TRUE>>, <<FALSE>>}}

\* requests that vary everything GeneratePostBuild reads
PostBuildInfos ==
    {[DefaultInfo EXCEPT !.RunnerCommand = rc,
                         !.Build.GetAllVariables = vs,
                         !.Build.TLSCAChain = tls,
                         !.Build.CacheFile = cf,
                         !.Build.Options = [cache |-> op[1], artifacts |-> op[2]],
                         !.Build.Network = net] :
        rc \in RunnerCommands, vs \in VariableLists, tls \in {"", "CERTIFICATE"},
        cf \in CacheFiles, op \in OptionPairs, net \in BOOLEAN}

(* ----------------------------- behaviour -------------------------------- *)

\* the caller runs the three phases in order, each on a writer of its own
Init ==
    /\ \/ info \in PreBuildInfos
       \/ info \in CommandsInfos
       \/ info \in PostBuildInfos
    /\ pc = "prebuild"
    /\ w = [PreBuild |-> <<>>, Commands |-> <<>>, PostBuild |-> <<>>]

CallGeneratePreBuild ==
    /\ pc = "prebuild"
    /\ w' = [w EXCEPT !.PreBuild = GeneratePreBuild(<<>>, info)]
    /\ pc' = "commands"
    /\ UNCHANGED info

CallGenerateCommands ==
    /\ pc = "commands"
    /\ w' = [w EXCEPT !.Commands = GenerateCommands(<<>>, info)]
    /\ pc' = "postbuild"
    /\ UNCHANGED info

CallGeneratePostBuild ==
    /\ pc = "postbuild"
    /\ w' = [w EXCEPT !.PostBuild = GeneratePostBuild(<<>>, info)]
    /\ pc' = "done"
    /\ UNCHANGED info

Next == CallGeneratePreBuild \/ CallGenerateCommands \/ CallGeneratePostBuild

Spec == Init /\ [][Next]_vars

(* ------------------- reading an emitted sequence ------------------------ *)

\* the phase has just been generated; at "done" all three sequences are complete
PreDone == pc = "commands"
CommandsDone == pc = "postbuild"
PostDone == pc = "done"

Indices(seq, ops) == {k \in 1..Len(seq) : seq[k].op \in ops}

\* open conditionals after the first k instructions of seq
Depth(seq, k) ==
    Cardinality({j \in 1..k : seq[j].op \in {"IfDirectory", "IfFile"}})
    - Cardinality({j \in 1..k : seq[j].op = "EndIf"})

\* the index, from k on, of the instruction that brings depth d back to 0
\* (0 when there is none)
RECURSIVE BlockEnd(_, _, _)
BlockEnd(seq, k, d) ==
    IF k > Len(seq) THEN 0
    ELSE LET d2 == IF seq[k].op \in {"IfDirectory", "IfFile"} THEN d + 1
                   ELSE IF seq[k].op = "EndIf" THEN d - 1
                   ELSE d
         IN  IF d2 = 0 THEN k ELSE BlockEnd(seq, k + 1, d2)

\* the depth, starting from d, stays >= 0 from instruction k on and ends at 0
RECURSIVE DepthNeverNegative(_, _, _)
DepthNeverNegative(seq, k, d) ==
    IF k > Len(seq) THEN d = 0
    ELSE LET d2 == IF seq[k].op \in {"IfDirectory", "IfFile"} THEN d + 1
                   ELSE IF seq[k].op = "EndIf" THEN d - 1
                   ELSE d
         IN  d2 >= 0 /\ DepthNeverNegative(seq, k + 1, d2)

WithoutNotices(seq) == SelectSeq(seq, LAMBDA x : x.op # "Notice")

IsCommand(x, command, arguments) == x = Instr("Command", <<command>> \o arguments)

\* the pre-build sequence is: variables, repository part ending in the checkout,
\* cache restoration (one balanced IfFile block or nothing), dependency artifacts
CheckoutIndices ==
    {k \in 1..Len(w.PreBuild) :
        IsCommand(w.PreBuild[k], "git", <<"checkout", info.Build.Sha>>)}

CheckoutIdx == CHOOSE k \in CheckoutIndices : TRUE

AfterCheckout == SubSeq(w.PreBuild, CheckoutIdx + 1, Len(w.PreBuild))

CacheSectionLen ==
    IF Len(AfterCheckout) > 0 /\ AfterCheckout[1].op = "IfFile"
    THEN BlockEnd(AfterCheckout, 1, 0)
    ELSE 0

CacheSection == SubSeq(AfterCheckout, 1, CacheSectionLen)

DependencySection == SubSeq(AfterCheckout, CacheSectionLen + 1, Len(AfterCheckout))

(* ------------------------------- C1 ------------------------------------- *)

\* C1: in GeneratePreBuild, with primary cache path a and "master" path b: both
\* non-empty => IfFile(a) comes first and IfFile(b) is emitted only after a's Else
\* and before a's EndIf; a empty, b non-empty => a single IfFile(b) at nesting
\* depth 0 with no Else; a non-empty, b empty => IfFile(a) with no Else and no
\* second IfFile; both empty => no IfFile, Else or EndIf for cache restoration.
C1_CacheRestorationNesting ==
    PreDone =>
        LET a == info.Build.CacheFile
            b == info.Build.CacheFileForRefMaster
            cs == CacheSection
            n == Len(cs)
            ifs == Indices(cs, {"IfFile"})
            elses == Indices(cs, {"Else"})
            ends == Indices(cs, {"EndIf"})
            single(f) == /\ n >= 2
                         /\ cs[1] = Instr("IfFile", <<f>>)
                         /\ ifs = {1} /\ elses = {} /\ ends = {n}
        IN  /\ Cardinality(CheckoutIndices) = 1
            /\ Depth(w.PreBuild, CheckoutIdx) = 0
            /\ Indices(AfterCheckout, {"IfFile", "IfDirectory", "Else", "EndIf"})
                   \subseteq 1..n
            /\ Indices(w.PreBuild, {"IfFile"}) = {CheckoutIdx + k : k \in ifs}
            /\ (a # "" /\ b # "") =>
                   \E e, j, f \in 1..n :
                       /\ 1 < e /\ e < j /\ j < f /\ f < n
                       /\ cs[1] = Instr("IfFile", <<a>>)
                       /\ cs[j] = Instr("IfFile", <<b>>)
                       /\ ifs = {1, j} /\ elses = {e} /\ ends = {f, n}
            /\ (a = "" /\ b # "") => single(b)
            /\ (a # "" /\ b = "") => single(a)
            /\ (a = "" /\ b = "") => n = 0

C1_Witness ==
    /\ PreDone
    /\ info.Build.CacheFile = "cache/feature/cache.tgz"
    /\ info.Build.CacheFileForRefMaster = "cache/master/cache.tgz"
    /\ info.Build.AllowGitFetch
    /\ \E e, j \in 1..Len(w.PreBuild) :
           /\ e < j
           /\ w.PreBuild[e].op = "Else"
           /\ w.PreBuild[j] = Instr("IfFile", <<"cache/master/cache.tgz">>)
           /\ Depth(w.PreBuild, j) = 2

(* ------------------------------- C2 ------------------------------------- *)

HasArtifact(d) == d.Artifacts # <<>> /\ d.Artifacts[1].Filename # ""

\* C2: in GeneratePreBuild with a non-empty companion path, the dependency section
\* holds (besides the Notice announcing each command) exactly one triple
\* artifacts --download Command, extract Command, RmFile per dependency whose
\* artifact filename is non-empty, in declared order, each with that dependency's
\* own Token, ID and filename; a dependency with no artifact record or an empty
\* filename contributes no instruction at all.
C2_DependencyTriples ==
    (PreDone /\ info.RunnerCommand # "") =>
        LET ds == DependencySection
            ops == WithoutNotices(ds)
            kept == SelectSeq(info.Build.DependsOnBuilds, HasArtifact)
            rc == info.RunnerCommand
        IN  /\ Len(ops) = 3 * Len(kept)
            /\ Len(ds) = 5 * Len(kept)
            /\ \A k \in 1..Len(kept) :
                   LET d == kept[k]
                       file == d.Artifacts[1].Filename
                   IN  /\ IsCommand(ops[3 * k - 2], rc,
                                    <<"artifacts", "--download", "--url", info.Build.Runner.URL,
                                      "--token", d.Token, "--id", Itoa(d.ID), "--file", file>>)
                       /\ IsCommand(ops[3 * k - 1], rc, <<"extract", "--file", file>>)
                       /\ ops[3 * k] = Instr("RmFile", <<file>>)
                       /\ ds[5 * k - 4].op = "Notice" /\ ds[5 * k - 4].args[2] = d.Name
                       /\ ds[5 * k - 2].op = "Notice" /\ ds[5 * k - 2].args[2] = d.Name

C2_Witness ==
    /\ PreDone
    /\ info.RunnerCommand # ""
    /\ Len(info.Build.DependsOnBuilds) = 3
    /\ HasArtifact(info.Build.DependsOnBuilds[1])
    /\ info.Build.DependsOnBuilds[2].Artifacts # <<>>
    /\ ~HasArtifact(info.Build.DependsOnBuilds[2])
    /\ HasArtifact(info.Build.DependsOnBuilds[3])
    /\ Cardinality(Indices(DependencySection, {"RmFile"})) = 2
    /\ Cardinality(Indices(DependencySection, {"Command"})) = 4

(* ------------------------------- C3 ------------------------------------- *)

Verbose == info.Build.Runner.DisableVerbose \in {<<>>, <<FALSE>>}

\* the lines of the command block: the block trimmed, cut at newlines, each piece trimmed
BlockLines ==
    LET pieces == Split(TrimSpace(info.Build.Commands), "\n")
    IN  [k \in 1..Len(pieces) |-> TrimSpace(pieces[k])]

\* what GenerateCommands emits after the variables and the Cd
CommandBlock ==
    SubSeq(w.Commands, Len(info.Build.GetAllVariables) + 2, Len(w.Commands))

\* C3: in GenerateCommands every line of the trimmed, newline-split command block
\* (itself trimmed, blank or not) is emitted as exactly one Line, in order, whatever
\* the verbosity; with verbose echo each Line of a non-blank line is immediately
\* preceded by Notice("$ %s", line) and each Line of a blank line by EmptyLine;
\* without verbose echo the block holds no Notice and no EmptyLine.
C3_CommandEcho ==
    CommandsDone =>
        LET body == CommandBlock
            lines == BlockLines
            n == Len(lines)
        IN  /\ n >= 1
            /\ SelectSeq(body, LAMBDA x : x.op = "Line")
                   = [k \in 1..n |-> Instr("Line", <<lines[k]>>)]
            /\ Verbose =>
                   /\ Len(body) = 2 * n
                   /\ \A k \in 1..n :
                          /\ body[2 * k] = Instr("Line", <<lines[k]>>)
                          /\ body[2 * k - 1] = IF lines[k] # ""
                                               THEN Instr("Notice", <<"$ %s", lines[k]>>)
                                               ELSE Instr("EmptyLine", <<>>)
            /\ ~Verbose => Len(body) = n

C3_Witness ==
    /\ CommandsDone
    /\ Verbose
    /\ info.Build.Commands = "l\n\nl"
    /\ \E k \in 1..(Len(w.Commands) - 1) :
           /\ w.Commands[k] = Instr("EmptyLine", <<>>)
           /\ w.Commands[k + 1] = Instr("Line", <<"">>)

(* ------------------------------- C4 ------------------------------------- *)

StringItems(option) ==
    IF option.paths.kind = "list"
    THEN SelectSeq(option.paths.items, LAMBDA x : x.kind = "string")
    ELSE <<>>

Untracked(option) == option.untracked.kind = "bool" /\ option.untracked.b

\* a mapping that yields no --path and no --untracked argument
NoEffectiveArguments(option) == Len(StringItems(option)) = 0 /\ ~Untracked(option)

ArchiveArguments(option, path) ==
    <<"archive", "--file", path>>
    \o [k \in 1..(2 * Len(StringItems(option))) |->
           IF k % 2 = 1 THEN "--path" ELSE StringItems(option)[k \div 2].s]
    \o (IF Untracked(option) THEN <<"--untracked">> ELSE <<>>)

\* what GeneratePostBuild emits between its header (variables, Cd, TLS variable)
\* and the upload block: the output of its archiveFiles calls
PostHeaderLen ==
    Len(info.Build.GetAllVariables) + 1 + (IF info.Build.TLSCAChain # "" THEN 1 ELSE 0)

ArchiveSection ==
    SubSeq(w.PostBuild, PostHeaderLen + 1,
           Len(w.PostBuild) - (IF info.Build.Network THEN Len(w.PostBuild) + 1
                                   - (CHOOSE k \in Indices(w.PostBuild, {"IfFile"}) : TRUE)
                               ELSE 0))

CacheArchiveCalled == info.Build.CacheFile # ""
ArtifactsArchiveCalled == info.Build.Network

\* what one call of archiveFiles is to emit
ArchiveContract(option, runnerCommand, archiveType, archivePath) ==
    IF option.kind # "map" THEN <<>>
    ELSE IF runnerCommand = ""
    THEN <<Instr("Warning", <<"The %s is not supported in this executor.", archiveType>>)>>
    ELSE IF NoEffectiveArguments(option) THEN <<>>
    ELSE <<Instr("Notice", <<"Archiving %s...", archiveType>>),
           Instr("Command", <<runnerCommand>> \o ArchiveArguments(option, archivePath))>>

ArchiveSectionContract ==
    (IF CacheArchiveCalled
     THEN ArchiveContract(info.Build.Options.cache, info.RunnerCommand, "cache",
                          info.Build.CacheFile)
     ELSE <<>>)
    \o (IF ArtifactsArchiveCalled
        THEN ArchiveContract(info.Build.Options.artifacts, info.RunnerCommand, "artifacts",
                             "artifacts.zip")
        ELSE <<>>)

\* C4 as claimed: archiveFiles emits nothing, whatever the companion path (the
\* empty one included), when the configuration is no mapping or yields zero
\* effective arguments.
C4_SilentForEveryRunnerCommand ==
    (/\ PostDone
     /\ CacheArchiveCalled =>
            (info.Build.Options.cache.kind # "map"
             \/ NoEffectiveArguments(info.Build.Options.cache))
     /\ ArtifactsArchiveCalled =>
            (info.Build.Options.artifacts.kind # "map"
             \/ NoEffectiveArguments(info.Build.Options.artifacts)))
    => ArchiveSection = <<>>

\* C4 (amended): archiveFiles emits nothing when the configuration is no mapping
\* (whatever the companion path) and, with a non-empty companion path, when the
\* mapping yields zero effective arguments; with an empty companion path every
\* mapping, also one with zero effective arguments, yields exactly one Warning;
\* otherwise it emits exactly a Notice and one Command with the arguments archive,
\* --file, <path>, --path <p> per string pattern in list order, --untracked last.
C4_ArchiveHelper ==
    PostDone => ArchiveSection = ArchiveSectionContract

C4_Witness ==
    /\ PostDone
    /\ info.RunnerCommand # ""
    /\ CacheArchiveCalled /\ ~ArtifactsArchiveCalled
    /\ Len(StringItems(info.Build.Options.cache)) = 2
    /\ Len(info.Build.Options.cache.paths.items) = 2
    /\ info.Build.Options.cache.paths.items[1] # info.Build.Options.cache.paths.items[2]
    /\ Untracked(info.Build.Options.cache)
    /\ Len(ArchiveSection) = 2
    /\ Len(ArchiveSection[2].args) = 9

C4_WitnessWarning ==
    /\ PostDone
    /\ info.RunnerCommand = ""
    /\ CacheArchiveCalled /\ ~ArtifactsArchiveCalled
    /\ info.Build.Options.cache.kind = "map"
    /\ NoEffectiveArguments(info.Build.Options.cache)
    /\ Len(ArchiveSection) = 1
    /\ ArchiveSection[1].op = "Warning"

(* ------------------------------- C5 ------------------------------------- *)

\* C5: in GeneratePostBuild with the Network capability set, the artifact block
\* is IfFile(F), upload of F, RmFile(F), EndIf for one and the same file F.
C5_RemovesUploadedArchive ==
    (PostDone /\ info.Build.Network) =>
        LET out == w.PostBuild
            n == Len(out)
        IN  \E i \in 1..n :
                LET F == out[i].args[1] IN
                /\ out[i].op = "IfFile"
                /\ Indices(out, {"IfFile"}) = {i}
                /\ info.RunnerCommand # "" =>
                       /\ i + 2 < n
                       /\ IsCommand(out[i + 2], info.RunnerCommand,
                                    <<"artifacts", "--url", info.Build.Runner.URL,
                                      "--token", info.Build.Token, "--id", Itoa(info.Build.ID),
                                      "--file", F>>)
                /\ out[n - 1] = Instr("RmFile", <<F>>)
                /\ out[n] = Instr("EndIf", <<>>)

(* ------------------------------- C6 ------------------------------------- *)

Mentions(x, texts) == \E k \in 1..Len(x.args) : x.args[k] \in texts

\* an instruction of the cache archival step: its notice, its warning or its command
IsCacheArchive(x) ==
    \/ x = Instr("Notice", <<"Archiving %s...", "cache">>)
    \/ x = Instr("Warning", <<"The %s is not supported in this executor.", "cache">>)
    \/ /\ x.op = "Command" /\ Len(x.args) >= 4
       /\ x.args[2] = "archive" /\ x.args[4] = info.Build.CacheFile

\* a cache configuration on which a call of archiveFiles emits something
CacheArchiveObservable ==
    /\ info.Build.Options.cache.kind = "map"
    /\ info.RunnerCommand = "" \/ ~NoEffectiveArguments(info.Build.Options.cache)

\* C6: in GeneratePostBuild without the Network capability no artifact-related
\* instruction is emitted, whatever the "artifacts" configuration and the
\* companion path (no archive Command for artifacts.zip, no IfFile, no upload
\* Command, no RmFile, no artifact warning); the cache archival step does not
\* depend on Network and is attempted exactly when the primary cache path is
\* non-empty.
C6_NoArtifactsWithoutNetwork ==
    PostDone =>
        LET out == w.PostBuild IN
        /\ ~info.Build.Network =>
               /\ Indices(out, {"IfFile", "IfDirectory", "Else", "EndIf", "RmFile"}) = {}
               /\ \A k \in 1..Len(out) :
                      /\ ~Mentions(out[k], {"artifacts", "artifacts.zip", "aritfacts.zip",
                                            "Uploading artifacts...",
                                            "The artifacts uploading is not supported in this executor."})
                      /\ out[k].op \in {"Command", "Notice", "Warning"} => IsCacheArchive(out[k])
        /\ (\E k \in 1..Len(out) : IsCacheArchive(out[k]))
               <=> (info.Build.CacheFile # "" /\ CacheArchiveObservable)

C6_Witness ==
    /\ PostDone
    /\ ~info.Build.Network
    /\ info.Build.Options.artifacts.kind = "map"
    /\ ~NoEffectiveArguments(info.Build.Options.artifacts)
    /\ info.Build.CacheFile # ""
    /\ \E k \in 1..Len(w.PostBuild) :
           w.PostBuild[k].op = "Command" /\ IsCacheArchive(w.PostBuild[k])

(* ------------------------------- C7 ------------------------------------- *)

NotSupported(archiveType) ==
    Instr("Warning", <<"The %s is not supported in this executor.", archiveType>>)

\* the cache restoration as it is to look when every extract call only warns
WarnedCacheSection ==
    LET a == info.Build.CacheFile
        b == info.Build.CacheFileForRefMaster
        block(f) == <<Instr("IfFile", <<f>>), NotSupported("cache")>>
        end == <<Instr("EndIf", <<>>)>>
    IN  IF a # "" /\ b # ""
        THEN block(a) \o <<Instr("Else", <<>>)>> \o block(b) \o end \o end
        ELSE IF a # "" THEN block(a) \o end
        ELSE IF b # "" THEN block(b) \o end
        ELSE <<>>

\* C7: with an empty companion path, in all three phases: every call of the
\* extract, download and upload helpers emits exactly one Warning and nothing
\* else, no Command with an empty command name and no archive/extract/artifacts
\* Command appears anywhere, and the rest of each phase is still emitted.
C7_DegradesToWarnings ==
    info.RunnerCommand = "" =>
        /\ PostDone =>
               \A phase \in {"PreBuild", "Commands", "PostBuild"} :
               \A k \in 1..Len(w[phase]) :
                   w[phase][k].op = "Command" =>
                       /\ w[phase][k].args[1] # ""
                       /\ Len(w[phase][k].args) >= 2
                       /\ w[phase][k].args[2] \notin {"archive", "extract", "artifacts"}
        /\ PreDone =>
               LET ds == DependencySection
                   kept == SelectSeq(info.Build.DependsOnBuilds, HasArtifact)
               IN  /\ CacheSection = WarnedCacheSection
                   /\ Len(ds) = 3 * Len(kept)
                   /\ \A k \in 1..Len(kept) :
                          /\ ds[3 * k - 2] = Instr("Warning",
                                 <<"The artifacts downloading is not supported in this executor.">>)
                          /\ ds[3 * k - 1] = NotSupported(kept[k].Name)
                          /\ ds[3 * k].op = "RmFile"
                          /\ ds[3 * k].args = <<kept[k].Artifacts[1].Filename>>
        /\ CommandsDone =>
               /\ Len(w.Commands) >= 2
               /\ w.Commands[Len(w.Commands)].op = "Line"
        /\ (PostDone /\ info.Build.Network) =>
               LET out == w.PostBuild
                   n == Len(out)
               IN  /\ n >= 4
                   /\ out[n - 3] = Instr("IfFile", <<"artifacts.zip">>)
                   /\ out[n - 2] = Instr("Warning",
                          <<"The artifacts uploading is not supported in this executor.">>)
                   /\ out[n - 1].op = "RmFile"
                   /\ out[n] = Instr("EndIf", <<>>)
                   /\ Indices(out, {"IfFile"}) = {n - 3}

C7_Witness ==
    /\ PostDone
    /\ info.RunnerCommand = ""
    /\ info.Build.Network
    /\ Cardinality(Indices(w.PostBuild, {"Warning"})) >= 1

C7_WitnessPreBuild ==
    /\ PreDone
    /\ info.RunnerCommand = ""
    /\ info.Build.CacheFile # "" /\ info.Build.CacheFileForRefMaster # ""
    /\ Len(SelectSeq(info.Build.DependsOnBuilds, HasArtifact)) = 2
    /\ Cardinality(Indices(w.PreBuild, {"Warning"})) = 6
    /\ Cardinality(Indices(w.PreBuild, {"RmFile"})) = 2

(* ------------------------------- C8 ------------------------------------- *)

\* the variables come first: the repository part starts after the last of them
RepositoryStart == Cardinality(Indices(w.PreBuild, {"Variable"})) + 1

RepositoryPart == WithoutNotices(SubSeq(w.PreBuild, RepositoryStart, CheckoutIdx))

CloneSteps ==
    LET dir == info.Build.FullProjectDir IN
    <<Instr("RmDir", <<dir>>),
      Instr("Command", <<"git", "clone", info.Build.RepoURL, dir>>),
      Instr("Cd", <<dir>>)>>

FetchSteps ==
    <<Instr("Cd", <<info.Build.FullProjectDir>>),
      Instr("Command", <<"git", "clean", "-ffdx">>),
      Instr("Command", <<"git", "reset", "--hard">>),
      Instr("Command", <<"git", "remote", "set-url", "origin", info.Build.RepoURL>>),
      Instr("Command", <<"git", "fetch", "origin">>)>>

Checkout == <<Instr("Command", <<"git", "checkout", info.Build.Sha>>)>>

\* C8: in GeneratePreBuild (Notices aside), without AllowGitFetch there is no
\* IfDirectory and the repository part is exactly RmDir(projectDir), git clone
\* <RepoURL> <projectDir>, Cd(projectDir), then git checkout <Sha>; with
\* AllowGitFetch it is IfDirectory(gitDir), the fetch commands clean -ffdx, reset
\* --hard, remote set-url origin <RepoURL>, fetch origin (run from projectDir),
\* Else, the same clone steps, EndIf; in both cases exactly one git checkout <Sha>
\* is emitted, after the clone/fetch part, at depth 0 and before any
\* cache-restoration instruction.
C8_RepositorySynchronization ==
    PreDone =>
        LET out == w.PreBuild IN
        /\ Cardinality(CheckoutIndices) = 1
        /\ Indices(out, {"Variable"}) = 1..(RepositoryStart - 1)
        /\ Depth(out, CheckoutIdx) = 0
        /\ Depth(out, CheckoutIdx - 1) = 0
        /\ ~info.Build.AllowGitFetch =>
               /\ Indices(out, {"IfDirectory"}) = {}
               /\ RepositoryPart = CloneSteps \o Checkout
        /\ info.Build.AllowGitFetch =>
               /\ RepositoryPart =
                      <<Instr("IfDirectory", <<info.Build.FullProjectDir \o "/.git">>)>>
                      \o FetchSteps \o <<Instr("Else", <<>>)>> \o CloneSteps
                      \o <<Instr("EndIf", <<>>)>> \o Checkout
        /\ \A k \in 1..Len(out) :
               (out[k].op = "IfFile" \/ Mentions(out[k], {"cache", "extract"})) => k > CheckoutIdx

C8_Witness ==
    /\ PreDone
    /\ info.Build.AllowGitFetch
    /\ info.Build.CacheFile # ""
    /\ Len(RepositoryPart) = 12
    /\ Cardinality(Indices(w.PreBuild, {"IfDirectory"})) = 1

C8_WitnessClone ==
    /\ PreDone
    /\ ~info.Build.AllowGitFetch
    /\ Len(RepositoryPart) = 4

(* ------------------------------- C9 ------------------------------------- *)

TLSVariable(key) ==
    [op |-> "Variable", args |-> <<>>,
     variable |-> [Key |-> key, Value |-> info.Build.TLSCAChain,
                   Public |-> TRUE, Internal |-> TRUE, File |-> TRUE]]

DeclaredExports ==
    [k \in 1..Len(info.Build.GetAllVariables) |->
        [op |-> "Variable", args |-> <<>>, variable |-> info.Build.GetAllVariables[k]]]

VariablesOf(seq) == SelectSeq(seq, LAMBDA x : x.op = "Variable")

\* C9: in GeneratePreBuild a non-empty TLS CA chain adds exactly two Variable
\* instructions, each File, Public and Internal with the chain as value, keyed
\* "GIT_SSL_CAINFO" then "CI_SERVER_TLS_CA_FILE", after all declared build
\* variables and before any repository-synchronization instruction; with an empty
\* chain no such variable is emitted in any phase.
C9_TLSVariables ==
    LET n == Len(info.Build.GetAllVariables)
        chain == info.Build.TLSCAChain
    IN  /\ (PreDone /\ chain # "") =>
               /\ VariablesOf(w.PreBuild)
                      = DeclaredExports
                        \o <<TLSVariable("GIT_SSL_CAINFO"), TLSVariable("CI_SERVER_TLS_CA_FILE")>>
               /\ SubSeq(w.PreBuild, 1, n + 2) = VariablesOf(w.PreBuild)
               /\ Len(w.PreBuild) > n + 2
               /\ w.PreBuild[n + 3].op \in {"Notice", "IfDirectory"}
        /\ (PostDone /\ chain = "") =>
               \A phase \in {"PreBuild", "Commands", "PostBuild"} :
                   /\ VariablesOf(w[phase]) = DeclaredExports
                   /\ \A k \in 1..Len(w[phase]) :
                          /\ ~w[phase][k].variable.File
                          /\ w[phase][k].variable.Key
                                 \notin {"GIT_SSL_CAINFO", "CI_SERVER_TLS_CA_FILE"}

C9_Witness ==
    /\ PreDone
    /\ info.Build.TLSCAChain # ""
    /\ Len(info.Build.GetAllVariables) = 2
    /\ w.PreBuild[3].variable.Key = "GIT_SSL_CAINFO"
    /\ w.PreBuild[4].variable.Key = "CI_SERVER_TLS_CA_FILE"

(* ------------------------------- C10 ------------------------------------ *)

\* a walk over seq from k with the stack of open conditionals, one flag each:
\* whether the conditional has had its Else
RECURSIVE WellNestedFrom(_, _, _)
WellNestedFrom(seq, k, stack) ==
    IF k > Len(seq) THEN stack = <<>>
    ELSE LET n == Len(stack) IN
         CASE seq[k].op \in {"IfDirectory", "IfFile"} ->
                  WellNestedFrom(seq, k + 1, Append(stack, FALSE))
           [] seq[k].op = "Else" ->
                  /\ n > 0
                  /\ ~stack[n]
                  /\ WellNestedFrom(seq, k + 1, [stack EXCEPT ![n] = TRUE])
           [] seq[k].op = "EndIf" ->
                  /\ n > 0
                  /\ WellNestedFrom(seq, k + 1, SubSeq(stack, 1, n - 1))
           [] OTHER -> WellNestedFrom(seq, k + 1, stack)

\* C10: in every generated sequence the conditionals are well nested: the count
\* of open conditionals is never negative at any prefix and zero at the end of the
\* phase, every Else is emitted while a conditional is open, and no conditional
\* receives more than one Else.
C10_WellNested ==
    PostDone =>
        \A phase \in {"PreBuild", "Commands", "PostBuild"} :
            /\ WellNestedFrom(w[phase], 1, <<>>)
            /\ DepthNeverNegative(w[phase], 1, 0)

C10_Witness ==
    /\ PostDone
    /\ info.Build.AllowGitFetch
    /\ info.Build.CacheFile # "" /\ info.Build.CacheFileForRefMaster # ""
    /\ Cardinality(Indices(w.PreBuild, {"Else"})) = 2
    /\ Cardinality(Indices(w.PreBuild, {"EndIf"})) = 3

C10_WitnessPostBuild ==
    /\ PostDone
    /\ info.Build.Network
    /\ Cardinality(Indices(w.PostBuild, {"EndIf"})) = 1

====
